---- MODULE Spec2Model ----
(***************************************************************************)
(* Screen-Based Vertex/Face Walker (src/__init__.py).                      *)
(*                                                                         *)
(* The host's edit mesh is a small fixed BMesh (a fan of three triangles   *)
(* around vertex 1).  Its selection flags and its selection history are    *)
(* the state; the four operators VWALK_OT_up/down/left/right each run      *)
(* walk_dispatch once, atomically.  The context of an invocation (edit     *)
(* object, 3D view region, select mode, projection) is an input of the     *)
(* invocation.  Screen coordinates are integers and scores are compared    *)
(* as real numbers (dot * 10 - dist is kept exactly, as a / sqrt(n)).      *)
(* Hidden geometry is not modelled: no element of the mesh is hidden.      *)
(***************************************************************************)
EXTENDS Integers, Sequences, FiniteSets, TLC

\* Largest number of vertices (of faces) the host selects by hand at once.
MaxSel == 2

(***************************************************************************)
(* The mesh: topology as bmesh exposes it.                                 *)
(***************************************************************************)
Verts == 1..5
Edges == 1..7
Faces == 1..3

\* e.verts
EdgeVerts ==
  <<{1, 2}, {1, 3}, {1, 4}, {1, 5}, {2, 3}, {3, 4}, {4, 5}>>

\* f.verts
FaceVerts == <<{1, 2, 3}, {1, 3, 4}, {1, 4, 5}>>

\* f.edges, in loop order
FaceEdges == <<(<<1, 5, 2>>), (<<2, 6, 3>>), (<<3, 7, 4>>)>>

\* v.link_edges, in disk-cycle order
LinkEdges ==
  <<(<<1, 2, 3, 4>>), (<<1, 5>>), (<<2, 5, 6>>), (<<3, 6, 7>>), (<<4, 7>>)>>

\* e.link_faces, in radial order
LinkFaces ==
  <<(<<1>>), (<<1, 2>>), (<<2, 3>>), (<<3>>), (<<1>>), (<<2>>), (<<3>>)>>

\* e.other_vert(v)
other_vert(e, v) == CHOOSE w \in EdgeVerts[e] : w # v

Range(s) == {s[i] : i \in 1..Len(s)}

\* [x for x in bm.verts if x.select]: the members of S in index order.
RECURSIVE IndexOrder(_)
IndexOrder(S) ==
  IF S = {} THEN <<>>
  ELSE LET m == CHOOSE x \in S : \A y \in S : x <= y
       IN <<m>> \o IndexOrder(S \ {m})

Reverse(s) == [i \in 1..Len(s) |-> s[Len(s) + 1 - i]]

\* Iteration of a Python set of mesh elements.  The order is fixed by the
\* elements' hashes, not by the program: it is an input of the run, drawn
\* from SetOrders.
SetOrders == {"asc", "desc"}
SetIter(S, ord) == IF ord = "asc" THEN IndexOrder(S) ELSE Reverse(IndexOrder(S))

(***************************************************************************)
(* Projection: location_3d_to_region_2d gives a 2D point or None.          *)
(***************************************************************************)
NoPoint == <<>>

\* The views an invocation may run under: the projected anchor of every
\* vertex (v) and of every face's median centre (f).
Views ==
  << [v |-> <<(<<0, 0>>), (<<-4, 0>>), (<<-3, 4>>), (<<3, 4>>), (<<4, 0>>)>>,
      f |-> <<(<<-3, 1>>), (<<0, 3>>), (<<3, 1>>)>>],
     [v |-> <<NoPoint, (<<0, 0>>), (<<0, 0>>), (<<0, 5>>), (<<4, 3>>)>>,
      f |-> <<(<<0, 0>>), (<<0, 0>>), NoPoint>>],
     [v |-> <<(<<0, 0>>), (<<0, 5>>), (<<4, 3>>), (<<4, -3>>), (<<0, -5>>)>>,
      f |-> <<(<<2, 3>>), (<<3, 0>>), (<<2, -3>>)>>] >>

ViewIds == 1..Len(Views)

\* The direction vectors of the four operators.
DirUp == <<0, 1>>
DirDown == <<0, -1>>
DirLeft == <<-1, 0>>
DirRight == <<1, 0>>
Directions == {DirUp, DirDown, DirLeft, DirRight}

(***************************************************************************)
(* Candidate scoring (the body of the neighbour loops).                    *)
(***************************************************************************)
DotWeight == 10
ThresholdNum == 3
ThresholdDen == 10

Delta(p2d, a2d) == <<p2d[1] - a2d[1], p2d[2] - a2d[2]>>

\* delta.length squared
LengthSq(d) == d[1] * d[1] + d[2] * d[2]

\* delta . direction_vector (before normalisation)
Proj(d, dir) == d[1] * dir[1] + d[2] * dir[2]

\* delta.normalized().dot(direction_vector) < 0.3, for a non-zero delta:
\* Proj / sqrt(LengthSq) < ThresholdNum / ThresholdDen.
DotBelowThreshold(d, dir) ==
  LET p == Proj(d, dir)
  IN \/ p < 0
     \/ ThresholdDen * ThresholdDen * p * p < ThresholdNum * ThresholdNum * LengthSq(d)

\* score = dot * 10.0 - dist = (10 * Proj - LengthSq) / sqrt(LengthSq),
\* kept as the pair <<numerator, LengthSq>>.
NoScore == <<>>
Score(d, dir) == <<DotWeight * Proj(d, dir) - LengthSq(d), LengthSq(d)>>

\* Faulty variant of ScoreGT: "score >= best_score", the last of equal scores wins.
ScoreGT_OrEqual(s, t) ==
  LET a == s[1]
      n == s[2]
      b == t[1]
      m == t[2]
  IN IF a >= 0 /\ b < 0 THEN TRUE
     ELSE IF a < 0 /\ b >= 0 THEN FALSE
     ELSE IF a >= 0 THEN a * a * m >= b * b * n
     ELSE a * a * m <= b * b * n

\* s > t for s = a / sqrt(n), t = b / sqrt(m)
ScoreGT(s, t) ==
  LET a == s[1]
      n == s[2]
      b == t[1]
      m == t[2]
  IN IF a >= 0 /\ b < 0 THEN TRUE
     ELSE IF a < 0 /\ b >= 0 THEN FALSE
     ELSE IF a >= 0 THEN a * a * m > b * b * n
     ELSE a * a * m < b * b * n

\* The loop "for ... in neighbours" of walk_single_vertex / walk_single_face
\* from its i-th iteration on: nbrs is the enumeration of the neighbours,
\* pos their projections.  0 stands for None.
RECURSIVE BestLoop(_, _, _, _, _, _, _)
BestLoop(a2d, nbrs, pos, dir, i, best, best_score) ==
  IF i > Len(nbrs) THEN best
  ELSE LET n == nbrs[i]
           p2d == pos[n]
       IN IF p2d = NoPoint
          THEN BestLoop(a2d, nbrs, pos, dir, i + 1, best, best_score)
          ELSE IF LengthSq(Delta(p2d, a2d)) = 0
          THEN BestLoop(a2d, nbrs, pos, dir, i + 1, best, best_score)
          ELSE IF DotBelowThreshold(Delta(p2d, a2d), dir)
          THEN BestLoop(a2d, nbrs, pos, dir, i + 1, best, best_score)
          ELSE IF best_score = NoScore \/ ScoreGT(Score(Delta(p2d, a2d), dir), best_score)
          THEN BestLoop(a2d, nbrs, pos, dir, i + 1, n, Score(Delta(p2d, a2d), dir))
          ELSE BestLoop(a2d, nbrs, pos, dir, i + 1, best, best_score)

\* The neighbours of v as the loop over v.link_edges meets them.
VertNeighbors(v) == [i \in 1..Len(LinkEdges[v]) |-> other_vert(LinkEdges[v][i], v)]

walk_single_vertex(v, view, dir) ==
  IF Views[view].v[v] = NoPoint THEN 0
  ELSE BestLoop(Views[view].v[v], VertNeighbors(v), Views[view].v, dir, 1, 0, NoScore)

\* The set neighbor_faces built for f.
neighbor_faces(f) ==
  {nf \in Faces : nf # f /\ \E i \in 1..Len(FaceEdges[f]) : nf \in Range(LinkFaces[FaceEdges[f][i]])}

\* ord is the order in which this run's sets iterate.
walk_single_face(f, view, dir, ord) ==
  IF Views[view].f[f] = NoPoint THEN 0
  ELSE BestLoop(Views[view].f[f], SetIter(neighbor_faces(f), ord), Views[view].f,
                dir, 1, 0, NoScore)


(***************************************************************************)
(* The bmesh selection API.  A selection s is [v, e, f]: the sets of       *)
(* vertices, edges and faces whose select flag is set.  select_set, unlike *)
(* the select attribute, updates the associated geometry; mode is the      *)
(* mesh's select mode.                                                     *)
(***************************************************************************)
EdgesOfVert(v) == {e \in Edges : v \in EdgeVerts[e]}
FacesOfEdge(e) == Range(LinkFaces[e])

\* BMVert.select_set
vert_select_set(s, v, select) ==
  [s EXCEPT !.v = IF select THEN @ \cup {v} ELSE @ \ {v}]

\* BMEdge.select_set: selecting an edge selects its vertices; deselecting it
\* deselects them, in a mode without vertex select only those that no other
\* selected edge uses.
edge_select_set(s, e, select, mode) ==
  IF select
  THEN [s EXCEPT !.e = @ \cup {e}, !.v = @ \cup EdgeVerts[e]]
  ELSE LET es == s.e \ {e}
           drop == IF mode.vert THEN EdgeVerts[e]
                   ELSE {x \in EdgeVerts[e] : EdgesOfVert(x) \cap es = {}}
       IN [s EXCEPT !.e = es, !.v = @ \ drop]

\* BMFace.select_set: selecting a face selects its edges and vertices;
\* deselecting it flushes down to them according to the select mode.
face_select_set(s, f, select, mode) ==
  IF select
  THEN [s EXCEPT !.f = @ \cup {f},
                 !.e = @ \cup Range(FaceEdges[f]),
                 !.v = @ \cup FaceVerts[f]]
  ELSE LET fs == s.f \ {f}
           edrop == IF mode.vert \/ mode.edge THEN Range(FaceEdges[f])
                    ELSE {e \in Range(FaceEdges[f]) : FacesOfEdge(e) \cap fs = {}}
           es == s.e \ edrop
           vdrop == IF mode.vert THEN FaceVerts[f]
                    ELSE {x \in FaceVerts[f] : EdgesOfVert(x) \cap es = {}}
       IN [s EXCEPT !.f = fs, !.e = es, !.v = @ \ vdrop]

\* for v in bm.verts: v.select_set(False)      (from the i-th vertex on)
RECURSIVE DeselectVerts(_, _)
DeselectVerts(s, i) ==
  IF i > Cardinality(Verts) THEN s
  ELSE DeselectVerts(vert_select_set(s, i, FALSE), i + 1)

\* for e in bm.edges: e.select_set(False)
RECURSIVE DeselectEdges(_, _, _)
DeselectEdges(s, i, mode) ==
  IF i > Cardinality(Edges) THEN s
  ELSE DeselectEdges(edge_select_set(s, i, FALSE, mode), i + 1, mode)

\* for f in bm.faces: f.select_set(False)
RECURSIVE DeselectFaces(_, _, _)
DeselectFaces(s, i, mode) ==
  IF i > Cardinality(Faces) THEN s
  ELSE DeselectFaces(face_select_set(s, i, FALSE, mode), i + 1, mode)

\* Faulty variant of ClearAll: the loop over bm.faces is missing.
ClearAll_SkipFaces(s, mode) == DeselectEdges(DeselectVerts(s, 1), 1, mode)

\* "Clear all selections (verts, edges, faces)"
ClearAll(s, mode) == DeselectFaces(DeselectEdges(DeselectVerts(s, 1), 1, mode), 1, mode)

\* for v in final_selection: v.select_set(True)      (order is the iteration)
RECURSIVE SelectVerts(_, _)
SelectVerts(s, order) ==
  IF order = <<>> THEN s
  ELSE SelectVerts(vert_select_set(s, Head(order), TRUE), Tail(order))

\* for f in final_selection: f.select_set(True)
RECURSIVE SelectFaces(_, _, _)
SelectFaces(s, order, mode) ==
  IF order = <<>> THEN s
  ELSE SelectFaces(face_select_set(s, Head(order), TRUE, mode), Tail(order), mode)

(***************************************************************************)
(* Elements of the selection history.                                      *)
(***************************************************************************)
V(i) == [kind |-> "V", id |-> i]
E(i) == [kind |-> "E", id |-> i]
F(i) == [kind |-> "F", id |-> i]
NoElem == [kind |-> "none", id |-> 0]
Elements == {V(i) : i \in Verts} \cup {E(i) : i \in Edges} \cup {F(i) : i \in Faces}

\* bm.select_history.active
HistoryActive(hist) == IF hist = <<>> THEN NoElem ELSE hist[Len(hist)]

\* elem.select
IsSelected(s, x) ==
  \/ x.kind = "V" /\ x.id \in s.v
  \/ x.kind = "E" /\ x.id \in s.e
  \/ x.kind = "F" /\ x.id \in s.f

(***************************************************************************)
(* The selection transition.  A host state h is [sel, hist]; a context ctx *)
(* is [mesh, view, mode]: whether context.edit_object is a mesh, the view  *)
(* its window shows (0: the window has no 3D view) and mesh_select_mode.   *)
(***************************************************************************)
\* Faulty variant of Cancelled: the history is cleared ahead of the checks.
Cancelled_HistoryCleared(h) ==
  [ret |-> "CANCELLED", h |-> [h EXCEPT !.hist = <<>>], computed |-> FALSE, active |-> 0,
   tgt |-> <<>>, nbrs |-> <<>>, moved |-> {}, targets |-> {}, final |-> {},
   new_active |-> 0]

\* What a transition hands back besides its return value: the host state
\* it leaves and its locals (0 and {} where it did not get that far).
Cancelled(h) ==
  [ret |-> "CANCELLED", h |-> h, computed |-> FALSE, active |-> 0, tgt |-> <<>>,
   nbrs |-> <<>>, moved |-> {}, targets |-> {}, final |-> {}, new_active |-> 0]

\* The loop "for v in origin_set" from its i-th iteration on; tgt[v] is the
\* walker's result for v.
RECURSIVE OriginLoop(_, _, _, _, _)
OriginLoop(order, tgt, active, i, acc) ==
  IF i > Len(order) THEN acc
  ELSE LET v == order[i]
           target == tgt[v]
       IN IF target # 0
          THEN OriginLoop(order, tgt, active, i + 1,
                 [moved |-> acc.moved \cup {v},
                  targets |-> acc.targets \cup {target},
                  active_target |-> IF v = active THEN target ELSE acc.active_target])
          ELSE OriginLoop(order, tgt, active, i + 1, acc)

NoneMoved == [moved |-> {}, targets |-> {}, active_target |-> 0]

\* Faulty variant of VertActive: the history's active element is taken as it is.
VertActive_NoReplace(h) == HistoryActive(h.hist).id

\* active = bm.select_history.active, replaced when it is no selected vertex
VertActive(h) ==
  LET a == HistoryActive(h.hist)
  IN IF ~(a.kind = "V") \/ ~IsSelected(h.sel, a) THEN IndexOrder(h.sel.v)[1] ELSE a.id

FaceActive(h) ==
  LET a == HistoryActive(h.hist)
  IN IF ~(a.kind = "F") \/ ~IsSelected(h.sel, a) THEN IndexOrder(h.sel.f)[1] ELSE a.id

\* Faulty variant of FinalSelection: unmoved origins are dropped.
FinalSelection_TargetsOnly(origin_set, acc) == acc.targets

\* Faulty variant of FinalSelection: moved origins stay selected.
FinalSelection_KeepMoved(origin_set, acc) == origin_set \cup acc.targets

\* final_selection = set(origin_set - moved_origins) | target_verts
FinalSelection(origin_set, acc) == (origin_set \ acc.moved) \cup acc.targets

\* Faulty variant of NewActive: the active element never follows its target.
NewActive_KeepsOrigin(acc, active) == active

\* new_active
NewActive(acc, active) == IF acc.active_target # 0 THEN acc.active_target ELSE active

\* The commit of walk_vertices: clear, apply, reset the history.
CommitVerts(h, mode, final_selection, new_active, ord) ==
  [sel |-> vert_select_set(
             SelectVerts(ClearAll(h.sel, mode), SetIter(final_selection, ord)),
             new_active, TRUE),
   hist |-> <<V(new_active)>>]

\* The commit of walk_faces.
CommitFaces(h, mode, final_selection, new_active, ord) ==
  [sel |-> face_select_set(
             SelectFaces(ClearAll(h.sel, mode), SetIter(final_selection, ord), mode),
             new_active, TRUE, mode),
   hist |-> <<F(new_active)>>]

walk_vertices(h, ctx, dir, ord) ==
  IF ~ctx.mesh THEN Cancelled(h)
  ELSE IF ctx.view = 0 THEN Cancelled(h)
  ELSE IF IndexOrder(h.sel.v) = <<>> THEN Cancelled(h)
  ELSE LET active == VertActive(h)
           origin_set == Range(IndexOrder(h.sel.v))
           tgt == [v \in origin_set |-> walk_single_vertex(v, ctx.view, dir)]
           acc == OriginLoop(SetIter(origin_set, ord), tgt, active, 1, NoneMoved)
           final_selection == FinalSelection(origin_set, acc)
           new_active == NewActive(acc, active)
       IN IF final_selection = {} THEN Cancelled(h)
          ELSE [ret |-> "FINISHED",
                h |-> CommitVerts(h, ctx.mode, final_selection, new_active, ord),
                computed |-> TRUE, active |-> active, tgt |-> tgt,
                nbrs |-> [v \in origin_set |-> VertNeighbors(v)],
                moved |-> acc.moved, targets |-> acc.targets,
                final |-> final_selection, new_active |-> new_active]

walk_faces(h, ctx, dir, ord) ==
  IF ~ctx.mesh THEN Cancelled(h)
  ELSE IF ctx.view = 0 THEN Cancelled(h)
  ELSE IF IndexOrder(h.sel.f) = <<>> THEN Cancelled(h)
  ELSE LET active == FaceActive(h)
           origin_set == Range(IndexOrder(h.sel.f))
           tgt == [f \in origin_set |-> walk_single_face(f, ctx.view, dir, ord)]
           acc == OriginLoop(SetIter(origin_set, ord), tgt, active, 1, NoneMoved)
           final_selection == FinalSelection(origin_set, acc)
           new_active == NewActive(acc, active)
       IN IF final_selection = {} THEN Cancelled(h)
          ELSE [ret |-> "FINISHED",
                h |-> CommitFaces(h, ctx.mode, final_selection, new_active, ord),
                computed |-> TRUE, active |-> active, tgt |-> tgt,
                nbrs |-> [f \in origin_set |-> SetIter(neighbor_faces(f), ord)],
                moved |-> acc.moved, targets |-> acc.targets,
                final |-> final_selection, new_active |-> new_active]

(***************************************************************************)
(* Dispatcher with MIX2 rule.                                              *)
(***************************************************************************)
MsgNoMesh == "No mesh in Edit Mode."
MsgEdge == "Edge walking is not supported by Screen-Based Walker."
MsgNoVerts == "No vertices selected."
MsgNoFaces == "No faces selected."
MsgMixed == "Mixed vertex/face selection not supported. Please select only vertices OR only faces."
MsgNothing == "Nothing selected."
MsgNoMode == "Use Vertex or Face select mode."

\* op.report({'WARNING'}, msg); return {'CANCELLED'}
Reject(h, msg) ==
  [w |-> Cancelled(h), reports |-> <<msg>>, delegated |-> "none"]

\* return walk_vertices(...) / return walk_faces(...)
Delegate(w, kind) ==
  [w |-> w, reports |-> <<>>, delegated |-> kind]

\* Faulty variant of MixedSelection: "or" for "and".
MixedSelection_Either(selected_verts, selected_faces) ==
  selected_verts # <<>> \/ selected_faces # <<>>

\* The MIX2 test: selected_verts and selected_faces
MixedSelection(selected_verts, selected_faces) ==
  selected_verts # <<>> /\ selected_faces # <<>>

walk_dispatch(h, ctx, dir, ord) ==
  LET vert_mode == ctx.mode.vert
      edge_mode == ctx.mode.edge
      face_mode == ctx.mode.face
      selected_verts == IndexOrder(h.sel.v)
      selected_faces == IndexOrder(h.sel.f)
  IN IF ~ctx.mesh THEN Reject(h, MsgNoMesh)
     ELSE IF edge_mode THEN Reject(h, MsgEdge)
     ELSE IF vert_mode /\ ~face_mode
     THEN IF selected_verts = <<>> THEN Reject(h, MsgNoVerts)
          ELSE Delegate(walk_vertices(h, ctx, dir, ord), "vertex")
     ELSE IF face_mode /\ ~vert_mode
     THEN IF selected_faces = <<>> THEN Reject(h, MsgNoFaces)
          ELSE Delegate(walk_faces(h, ctx, dir, ord), "face")
     ELSE IF vert_mode /\ face_mode
     THEN IF MixedSelection(selected_verts, selected_faces) THEN Reject(h, MsgMixed)
          ELSE IF selected_verts # <<>>
          THEN Delegate(walk_vertices(h, ctx, dir, ord), "vertex")
          ELSE IF selected_faces # <<>>
          THEN Delegate(walk_faces(h, ctx, dir, ord), "face")
          ELSE Reject(h, MsgNothing)
     ELSE Reject(h, MsgNoMode)

(***************************************************************************)
(* State: the edit mesh's selection flags and selection history, and the   *)
(* operator call in progress.                                              *)
(***************************************************************************)
VARIABLES
  vsel,            \* the vertices with v.select
  esel,            \* the edges with e.select
  fsel,            \* the faces with f.select
  select_history,  \* bm.select_history
  last             \* idle, or the call that has just returned: its direction,
                   \* its context, the host state it started from, its outcome

vars == <<vsel, esel, fsel, select_history, last>>

Host == [sel |-> [v |-> vsel, e |-> esel, f |-> fsel], hist |-> select_history]

Modes == [vert : BOOLEAN, edge : BOOLEAN, face : BOOLEAN]

\* The contexts an operator may be called in.
Contexts ==
  {c \in [mesh : BOOLEAN, view : 0..Len(Views), mode : Modes] : ~c.mesh => c.view = 1}

Idle == [op |-> "idle"]

Init ==
  /\ vsel = {}
  /\ esel = {}
  /\ fsel = {}
  /\ select_history = <<>>
  /\ last = Idle

\* VWALK_OT_*.execute: walk_dispatch(self, context, direction), start to return.
Execute(dir) ==
  /\ last.op = "idle"
  /\ \E ctx \in Contexts, ord \in SetOrders :
       LET out == walk_dispatch(Host, ctx, dir, ord)
       IN /\ vsel' = out.w.h.sel.v
          /\ esel' = out.w.h.sel.e
          /\ fsel' = out.w.h.sel.f
          /\ select_history' = out.w.h.hist
          /\ last' = [op |-> "returned", dir |-> dir, ctx |-> ctx, pre |-> Host,
                      out |-> out]

VWALK_OT_up == Execute(DirUp)
VWALK_OT_down == Execute(DirDown)
VWALK_OT_left == Execute(DirLeft)
VWALK_OT_right == Execute(DirRight)

\* The host takes the operator's return value; the next event may come.
EventDone ==
  /\ last.op = "returned"
  /\ last' = Idle
  /\ UNCHANGED <<vsel, esel, fsel, select_history>>

\* The elements the host selects by hand: any vertex, any face, one edge.
Pickable == {x \in Elements : x.kind = "E" => x.id = 2}

\* Between operator calls the host (the user, a script) edits the selection:
\* it sets one element's select flag,
HostSelect ==
  /\ last.op = "idle"
  /\ Cardinality(vsel) + Cardinality(esel) + Cardinality(fsel) < MaxSel
  /\ \E x \in Pickable :
       /\ ~IsSelected(Host.sel, x)
       /\ vsel' = IF x.kind = "V" THEN vsel \cup {x.id} ELSE vsel
       /\ esel' = IF x.kind = "E" THEN esel \cup {x.id} ELSE esel
       /\ fsel' = IF x.kind = "F" THEN fsel \cup {x.id} ELSE fsel
  /\ UNCHANGED <<select_history, last>>

\* deselects everything,
HostDeselectAll ==
  /\ last.op = "idle"
  /\ vsel' = {}
  /\ esel' = {}
  /\ fsel' = {}
  /\ select_history' = <<>>
  /\ UNCHANGED last

\* The elements the host may leave in the history although they are not
\* selected.
StaleActives == {V(1), F(2)}

\* or makes an element the active one.
HostSetActive ==
  /\ last.op = "idle"
  /\ \E x \in Elements :
       /\ IsSelected(Host.sel, x) \/ x \in StaleActives
       /\ select_history' = <<x>>
  /\ UNCHANGED <<vsel, esel, fsel, last>>

Next ==
  \/ VWALK_OT_up
  \/ VWALK_OT_down
  \/ VWALK_OT_left
  \/ VWALK_OT_right
  \/ EventDone
  \/ HostSelect
  \/ HostDeselectAll
  \/ HostSetActive

Spec == Init /\ [][Next]_vars

(***************************************************************************)
(* Properties.  They are stated on the call that has just returned: on     *)
(* last.pre (the host state at its start), last.ctx and last.dir (its      *)
(* inputs), last.out (its outcome) and on the host state it left.          *)
(***************************************************************************)
Returned == last.op = "returned"
Ret == last.out.w.ret
Kind == last.out.delegated
Committed == Returned /\ Ret = "FINISHED"
Transitioned == Returned /\ Kind # "none" /\ last.ctx.mesh /\ last.ctx.view # 0

\* The walked kind's selection at the start of the call and now.
PreKindSel == IF Kind = "vertex" THEN last.pre.sel.v ELSE last.pre.sel.f
NowKindSel == IF Kind = "vertex" THEN vsel ELSE fsel
KindElem(i) == IF Kind = "vertex" THEN V(i) ELSE F(i)

\* The projections the call's view gives the walked kind.
KindPos == IF Kind = "vertex" THEN Views[last.ctx.view].v ELSE Views[last.ctx.view].f

\* Topological adjacency: vertices joined by an edge, faces sharing an edge.
Adjacent(a, b) ==
  IF Kind = "vertex" THEN \E e \in Edges : EdgeVerts[e] = {a, b} /\ a # b
  ELSE a # b /\ Range(FaceEdges[a]) \cap Range(FaceEdges[b]) # {}
KindAll == IF Kind = "vertex" THEN Verts ELSE Faces

\* The screen delta from o to n, its squared length and its component along
\* the call's direction.
DeltaTo(o, n) == <<KindPos[n][1] - KindPos[o][1], KindPos[n][2] - KindPos[o][2]>>
DistSq(o, n) == DeltaTo(o, n)[1] * DeltaTo(o, n)[1] + DeltaTo(o, n)[2] * DeltaTo(o, n)[2]
Along(o, n) == DeltaTo(o, n)[1] * last.dir[1] + DeltaTo(o, n)[2] * last.dir[2]

\* n is a projectable, admissible candidate for the projectable origin o:
\* a non-zero delta whose cosine to the direction is at least 3/10.
Admissible(o, n) ==
  /\ KindPos[n] # NoPoint
  /\ DeltaTo(o, n) # <<0, 0>>
  /\ Along(o, n) > 0
  /\ 100 * Along(o, n) * Along(o, n) >= 9 * DistSq(o, n)
Candidates(o) ==
  IF KindPos[o] = NoPoint THEN {}
  ELSE {n \in KindAll : Adjacent(o, n) /\ Admissible(o, n)}

\* The order of the scores 10 * cos - dist = (10 * Along - DistSq) / sqrt(DistSq)
\* of two candidates of o: x / sqrt(p) <= y / sqrt(q) iff
\* sgn(x) * x^2 * q <= sgn(y) * y^2 * p.
Sgn(x) == IF x > 0 THEN 1 ELSE IF x < 0 THEN -1 ELSE 0
Merit(o, n) == 10 * Along(o, n) - DistSq(o, n)
ScoreLE(o, n, t) ==
  Sgn(Merit(o, n)) * Merit(o, n) * Merit(o, n) * DistSq(o, t)
    <= Sgn(Merit(o, t)) * Merit(o, t) * Merit(o, t) * DistSq(o, n)

\* The active element the rule of the invocation start gives.
StartActive ==
  LET a == HistoryActive(last.pre.hist)
  IN IF a.kind = KindElem(1).kind /\ a.id \in PreKindSel THEN a.id
     ELSE CHOOSE m \in PreKindSel : \A x \in PreKindSel : m <= x

\* moved and targets, from the walker's results the call recorded
Moved == {o \in PreKindSel : last.out.w.tgt[o] # 0}
Targets == {last.out.w.tgt[o] : o \in Moved}

\* C1 (as claimed): every selected origin without admissible neighbour makes
\* the transition cancel and leave selection, active element and history as
\* they were.
C1_CancelsWhenNoTargets ==
  (Transitioned /\ \A o \in PreKindSel : Candidates(o) = {})
    => (Ret = "CANCELLED" /\ Host = last.pre)

\* C1 (amended): when every selected origin has no admissible neighbour the
\* transition commits: it returns FINISHED, the walked kind's selection is
\* the one it started from, and the history holds the start's active element.
C1_CommitsUnchangedWhenNoTargets ==
  (Transitioned /\ \A o \in PreKindSel : Candidates(o) = {})
    => /\ Ret = "FINISHED"
       /\ NowKindSel = PreKindSel
       /\ select_history = <<KindElem(StartActive)>>

C1_Witness ==
  /\ Transitioned
  /\ Kind = "vertex"
  /\ Cardinality(PreKindSel) = 2
  /\ \A o \in PreKindSel : Candidates(o) = {}
  /\ select_history # last.pre.hist

\* C2: whenever a call commits, the new active element is a member of the
\* new selection set, whether the active origin moved or stayed.
C2_ActiveInSelection ==
  Committed =>
    /\ last.out.w.new_active \in last.out.w.final
    /\ HistoryActive(select_history) = KindElem(last.out.w.new_active)
    /\ last.out.w.new_active \in NowKindSel

C2_Witness ==
  /\ Committed
  /\ Moved # {}
  /\ last.out.w.active \notin Moved
  /\ HistoryActive(last.pre.hist) # KindElem(last.out.w.active)
  /\ last.out.w.new_active \in NowKindSel

\* C3: on commit the new selection is (currentSelection - moved) \cup targets,
\* computed against the selection at the start of the call: unmoved origins
\* stay, a moved origin stays only as some origin's target, converging
\* origins give their target once.
C3_NewSelection ==
  Committed =>
    /\ DOMAIN last.out.w.tgt = PreKindSel
    /\ last.out.w.final = (PreKindSel \ Moved) \cup Targets
    /\ NowKindSel = (PreKindSel \ Moved) \cup Targets
    /\ \A o \in PreKindSel \ Moved : o \in NowKindSel
    /\ \A o \in Moved : o \in NowKindSel <=> o \in Targets

C3_Witness ==
  /\ Committed
  /\ \E a, b \in Moved : a # b /\ last.out.w.tgt[a] = last.out.w.tgt[b]
  /\ \E a \in Moved : a \in Targets
  /\ Cardinality(NowKindSel) < Cardinality(PreKindSel)

\* C4 (as claimed): after a commit of kind K the selected elements of kind K
\* are exactly newSelection, every element of the other kinds is deselected,
\* and the history holds exactly the new active element.
C4_ExclusiveAcrossKinds ==
  Committed =>
    /\ NowKindSel = last.out.w.final
    /\ esel = {}
    /\ Kind = "vertex" => fsel = {}
    /\ Kind = "face" => vsel = {}
    /\ select_history = <<KindElem(last.out.w.new_active)>>

\* C4 (amended): after a commit the selected elements of the walked kind are
\* exactly newSelection and the history holds exactly the new active
\* element; after a vertex walk every edge and face is deselected; after a
\* face walk the selected edges and vertices are exactly those of the faces
\* of newSelection.
C4_CommitAppliesSelection ==
  Committed =>
    /\ NowKindSel = last.out.w.final
    /\ select_history = <<KindElem(last.out.w.new_active)>>
    /\ Kind = "vertex" => (esel = {} /\ fsel = {})
    /\ Kind = "face" =>
         /\ esel = UNION {Range(FaceEdges[f]) : f \in last.out.w.final}
         /\ vsel = UNION {FaceVerts[f] : f \in last.out.w.final}

C4_Witness ==
  /\ Committed
  /\ Kind = "face"
  /\ last.pre.sel.v # {}
  /\ ~(last.pre.sel.v \subseteq vsel)
  /\ vsel # {}
  /\ fsel # last.pre.sel.f

\* C5: a call that ends in a rejection or a cancellation leaves the vertex,
\* edge and face select flags and the selection history as they were at its
\* start; only the path that returns FINISHED mutates.
C5_RejectionLeavesHost ==
  (Returned /\ Ret = "CANCELLED") => Host = last.pre

C5_Witness ==
  /\ Returned
  /\ Ret = "CANCELLED"
  /\ Kind = "vertex"
  /\ last.pre.sel.v # {}
  /\ last.pre.sel.f # {}
  /\ last.pre.hist # <<>>
  /\ Host = last.pre

\* C6: with a mesh in edit mode, the dispatcher's outcome is the stated
\* function of the three mode flags and of whether vertices, whether faces
\* are selected.
C6_DispatchTable ==
  (Returned /\ last.ctx.mesh) =>
    LET m == last.ctx.mode
        anyV == last.pre.sel.v # {}
        anyF == last.pre.sel.f # {}
        rejects(msg) == Kind = "none" /\ Ret = "CANCELLED" /\ last.out.reports = <<msg>>
    IN /\ m.edge => rejects(MsgEdge)
       /\ (~m.edge /\ m.vert /\ ~m.face) =>
            IF anyV THEN Kind = "vertex" ELSE rejects(MsgNoVerts)
       /\ (~m.edge /\ m.face /\ ~m.vert) =>
            IF anyF THEN Kind = "face" ELSE rejects(MsgNoFaces)
       /\ (~m.edge /\ m.vert /\ m.face) =>
            IF anyV /\ anyF THEN rejects(MsgMixed)
            ELSE IF anyV THEN Kind = "vertex"
            ELSE IF anyF THEN Kind = "face"
            ELSE rejects(MsgNothing)
       /\ (~m.edge /\ ~m.vert /\ ~m.face) => rejects(MsgNoMode)

C6_Witness ==
  /\ Returned
  /\ last.ctx.mesh
  /\ last.ctx.mode = [vert |-> TRUE, edge |-> FALSE, face |-> TRUE]
  /\ Cardinality(last.pre.sel.v) = 2
  /\ last.pre.sel.f = {}
  /\ Kind = "vertex"

\* C7: every call either commits, or mutates nothing and reports exactly one
\* rejection reason; no call returns CANCELLED without a report.
C7_ExactlyOneReason ==
  Returned =>
    \/ Ret = "FINISHED" /\ last.out.reports = <<>>
    \/ Ret = "CANCELLED" /\ Host = last.pre /\ Len(last.out.reports) = 1

\* C8: for a fixed topology, projection, selection, active element and
\* direction the transition's result does not depend on the order in which
\* the sets of origins and of a face's neighbours iterate, ties included.
C8_Determinism ==
  Returned =>
    \A ord \in SetOrders :
      walk_dispatch(last.pre, last.ctx, last.dir, ord).w.h = Host

\* C9: the active element is replaced at the start by the first selected
\* element (in enumeration order) when it is absent, of another kind or not
\* selected; on commit the new active element is that element's target if it
\* moved and that element otherwise.
C9_ActiveRule ==
  Committed =>
    /\ last.out.w.active = StartActive
    /\ last.out.w.new_active =
         IF last.out.w.tgt[StartActive] # 0 THEN last.out.w.tgt[StartActive]
         ELSE StartActive
    /\ select_history = <<KindElem(last.out.w.new_active)>>

C9_Witness ==
  /\ Committed
  /\ Kind = "vertex"
  /\ HistoryActive(last.pre.hist) = V(1)
  /\ 1 \notin last.pre.sel.v
  /\ Cardinality(last.pre.sel.v) = 2
  /\ StartActive \in Moved
  /\ select_history = <<V(last.out.w.tgt[StartActive])>>

\* The place of neighbour n in the enumeration the walker of o went through.
Place(o, n) == CHOOSE i \in 1..Len(last.out.w.nbrs[o]) : last.out.w.nbrs[o][i] = n

\* C10: the per-origin walker returns None for an unprojectable origin and
\* when no neighbour is projectable and admissible; otherwise it returns a
\* projectable admissible neighbour other than the origin whose score no
\* other candidate exceeds, the first enumerated among equal scores.
C10_WalkerResult ==
  (Returned /\ last.out.w.computed) =>
    \A o \in PreKindSel :
      LET t == last.out.w.tgt[o]
      IN /\ Range(last.out.w.nbrs[o]) = {n \in KindAll : Adjacent(o, n)}
         /\ Candidates(o) = {} => t = 0
         /\ Candidates(o) # {} =>
              /\ t \in Candidates(o)
              /\ t # o
              /\ \A n \in Candidates(o) :
                   /\ ScoreLE(o, n, t)
                   /\ ScoreLE(o, t, n) => Place(o, t) <= Place(o, n)

C10_Witness ==
  /\ Returned
  /\ last.out.w.computed
  /\ \E o \in PreKindSel :
       /\ Cardinality(Candidates(o)) >= 2
       /\ \E n \in Candidates(o) :
            /\ n # last.out.w.tgt[o]
            /\ ScoreLE(o, last.out.w.tgt[o], n)
            /\ Place(o, last.out.w.tgt[o]) < Place(o, n)
====
